---- MODULE Spec2Model ----
(***************************************************************************)
(* Client-side state machine of static/js/main.js: the debug utility      *)
(* (panel, status polling, rolling log) and the DOMContentLoaded closure  *)
(* (file upload, file deletion, chat).  Every event handler, timer         *)
(* callback and promise continuation of the script is one action; the     *)
(* browser runs each of them to completion before the next.               *)
(*                                                                         *)
(* The page markup is not part of the script.  The model takes the page   *)
(* as the script expects it on load: debug panel closed, stats section    *)
(* hidden, chat controls disabled, transcript holding the welcome block.  *)
(* The server answers /upload and /query with the documented documents    *)
(* ({stats, preview} | {error} and {response} | {error}); the transport   *)
(* may also fail, or deliver a body that is not JSON.                     *)
(***************************************************************************)
EXTENDS Integers, Sequences, FiniteSets, TLC

\* ------------------------------------------------------------------ bounds
MaxUploads == 2          \* /upload requests outstanding at once
MaxQueries == 2          \* queries sent in one run
MaxNotifications == 1    \* toasts on screen at once
MaxStatus == 2           \* /debug/status requests outstanding at once
MaxInsertions == 103     \* log insertions in one run
MaxByteDigits == 5       \* base-1024 digits of a byte count handed to formatBytes

\* ------------------------------------------------------- program constants
maxLogEntries == 100

VARIABLES
    loaded,              \* DOMContentLoaded has run
    \* --- upload closure
    currentFile,         \* let currentFile
    csvFileValue,        \* csvFile.value
    uploads,             \* files of the outstanding /upload requests, oldest first
    spinners,            \* number of #loadingSpinner elements in the drop zone
    statsHidden,         \* statsSection has class d-none
    rowCount,            \* #rowCount textContent
    colCount,            \* #colCount textContent
    previewContent,      \* #previewContent innerHTML
    queryInputDisabled,  \* queryInput.disabled
    queryBtnDisabled,    \* queryBtn.disabled
    clearChatDisabled,   \* clearChat.disabled
    fileInfo,            \* names shown by the .file-info elements of the drop zone
    notifications,       \* toasts in document.body, oldest first
    \* --- chat closure
    queryInputValue,     \* queryInput.value
    chatMessages,        \* children of #chatMessages, in document order
    queries,             \* outstanding /query requests
    nextSeq,             \* number of queries sent so far
    \* --- debug utility
    debugPanelShow,      \* debugPanel has class show
    statusRequests,      \* outstanding /debug/status requests, oldest first
    systemStatus,        \* what #systemStatus shows
    performanceMetrics,  \* what #performanceMetrics shows
    logQueue,            \* debug.logQueue
    recentLogs,          \* what #recentLogs shows
    logClock,            \* number of entries inserted so far
    formatArg,           \* the byte count of a debug.formatBytes call
    formatResult         \* what that call returned

uploadVars == <<currentFile, csvFileValue, uploads, spinners, statsHidden,
                rowCount, colCount, previewContent, queryInputDisabled,
                queryBtnDisabled, clearChatDisabled, fileInfo>>
chatVars == <<queryInputValue, chatMessages, queries, nextSeq>>
panelVars == <<debugPanelShow, statusRequests, systemStatus, performanceMetrics>>
logVars == <<logQueue, recentLogs, logClock>>
formatVars == <<formatArg, formatResult>>
vars == <<loaded, uploadVars, notifications, chatVars, panelVars, logVars, formatVars>>

\* ------------------------------------------------------------ sequences
RemoveAt(s, i) == SubSeq(s, 1, i - 1) \o SubSeq(s, i + 1, Len(s))

\* String.prototype.endsWith
EndsWith(s, suffix) ==
    /\ Len(s) >= Len(suffix)
    /\ SubSeq(s, Len(s) - Len(suffix) + 1, Len(s)) = suffix

Whitespace == {" "}

RECURSIVE TrimStart(_)
TrimStart(s) ==
    IF s # <<>> /\ Head(s) \in Whitespace THEN TrimStart(Tail(s)) ELSE s

RECURSIVE TrimEnd(_)
TrimEnd(s) ==
    IF s # <<>> /\ s[Len(s)] \in Whitespace
    THEN TrimEnd(SubSeq(s, 1, Len(s) - 1))
    ELSE s

\* String.prototype.trim
Trim(s) == TrimEnd(TrimStart(s))

\* ------------------------------------------------------------ inputs
CsvSuffix == <<".", "c", "s", "v">>

NoFile == [present |-> FALSE, name |-> <<>>]
File(n) == [present |-> TRUE, name |-> n]

FileNames == { <<"a", ".", "c", "s", "v">>,
               <<"b", ".", "c", "s", "v">>,
               <<"a", ".", "t", "x", "t">>,
               <<"a", "c", "s", "v">> }

\* what a drop or a file dialog can hand to handleFile
Files == {NoFile} \cup { File(n) : n \in FileNames }

\* bodies the server sends for /upload
UploadDocs == { [error |-> "", rows |-> "10", columns |-> "3", preview |-> "<table>10x3</table>"],
                [error |-> "Invalid CSV", rows |-> "", columns |-> "", preview |-> ""] }

\* how a fetch settles: a parsed body, a rejected fetch, a body that is not JSON
Network == "network"
Parse == "parse"
FailureMessage(kind) ==
    IF kind = Network THEN "Failed to fetch" ELSE "Unexpected token < in JSON"

\* what the page shows before the script writes to it
PageDefault == "-"
WelcomeMessage == [role |-> "welcome", content |-> <<>>, seq |-> 0]

\* texts the user can leave in the query box
QueryTexts == { <<>>, <<" ">>, <<" ", "h", "i", " ">> }

\* ------------------------------------------------------------ state
\* the page and the debug object before DOMContentLoaded
PageInit ==
    /\ loaded = FALSE
    /\ currentFile = NoFile
    /\ csvFileValue = <<>>
    /\ uploads = <<>>
    /\ spinners = 0
    /\ statsHidden = TRUE
    /\ rowCount = PageDefault
    /\ colCount = PageDefault
    /\ previewContent = PageDefault
    /\ queryInputDisabled = TRUE
    /\ queryBtnDisabled = TRUE
    /\ clearChatDisabled = TRUE
    /\ fileInfo = <<>>
    /\ notifications = <<>>
    /\ queryInputValue = <<>>
    /\ chatMessages = <<WelcomeMessage>>
    /\ queries = {}
    /\ nextSeq = 0
    /\ debugPanelShow = FALSE
    /\ statusRequests = <<>>
    /\ systemStatus = PageDefault
    /\ performanceMetrics = PageDefault
    /\ logQueue = <<>>
    /\ recentLogs = <<>>
    /\ logClock = 0

\* a byte count is a number in base 1024, most significant digit first, zero the
\* empty sequence; a formatted count is its decimal text and its unit
ZeroBytes == <<>>
NotCalled == [number |-> <<>>, unit |-> ""]

Init ==
    /\ PageInit
    /\ formatArg = ZeroBytes
    /\ formatResult = NotCalled


\* ------------------------------------------------------------ notifications
\* showNotification: the toast element appended to document.body
Notification(message, type) ==
    [message |-> message,
     className |-> IF type = "error" THEN "alert-danger" ELSE "alert-success",
     animation |-> "fadeIn"]

ShowNotification(message, type) ==
    /\ Len(notifications) < MaxNotifications
    /\ notifications' = Append(notifications, Notification(message, type))

\* the 3000 ms timer of the oldest toast that has not faded yet
NotificationFadeOut ==
    /\ loaded
    /\ \E i \in DOMAIN notifications :
        /\ notifications[i].animation = "fadeIn"
        /\ \A j \in 1..(i - 1) : notifications[j].animation = "fadeOut"
        /\ notifications' = [notifications EXCEPT ![i].animation = "fadeOut"]
    /\ UNCHANGED <<formatVars, loaded, uploadVars, chatVars, panelVars, logVars>>

\* the nested 300 ms timer: notification.remove()
NotificationRemove ==
    /\ loaded
    /\ notifications # <<>>
    /\ Head(notifications).animation = "fadeOut"
    /\ notifications' = Tail(notifications)
    /\ UNCHANGED <<formatVars, loaded, uploadVars, chatVars, panelVars, logVars>>

\* ------------------------------------------------------------ upload
\* hideLoadingSpinner: removes the first #loadingSpinner, if there is one
HideLoadingSpinner(n) == IF n > 0 THEN n - 1 ELSE n

\* showLoadingSpinner: appends one more #loadingSpinner
ShowLoadingSpinner(n) == n + 1

\* handleFile with an in-flight guard: a file is ignored while an upload is outstanding
HandleFileGuarded(file) ==
    IF ~file.present \/ ~EndsWith(file.name, CsvSuffix)
    THEN /\ ShowNotification("Please select a CSV file", "error")
         /\ UNCHANGED <<currentFile, uploads, spinners>>
    ELSE IF uploads # <<>>
    THEN UNCHANGED <<currentFile, uploads, spinners, notifications>>
    ELSE /\ Len(uploads) < MaxUploads
         /\ spinners' = ShowLoadingSpinner(spinners)
         /\ currentFile' = file
         /\ uploads' = Append(uploads, file.name)
         /\ UNCHANGED notifications

\* handleFile with the extension test left out
HandleFileAnyName(file) ==
    IF ~file.present
    THEN /\ ShowNotification("Please select a CSV file", "error")
         /\ UNCHANGED <<currentFile, uploads, spinners>>
    ELSE /\ Len(uploads) < MaxUploads
         /\ spinners' = ShowLoadingSpinner(spinners)
         /\ currentFile' = file
         /\ uploads' = Append(uploads, file.name)
         /\ UNCHANGED notifications

\* the statements of handleFile; csvFileValue belongs to the caller
HandleFile(file) ==
    IF ~file.present \/ ~EndsWith(file.name, CsvSuffix)
    THEN /\ ShowNotification("Please select a CSV file", "error")
         /\ UNCHANGED <<currentFile, uploads, spinners>>
    ELSE /\ Len(uploads) < MaxUploads
         /\ spinners' = ShowLoadingSpinner(spinners)
         /\ currentFile' = file
         /\ uploads' = Append(uploads, file.name)
         /\ UNCHANGED notifications

\* dropZone 'drop' listener
Drop(file) ==
    /\ loaded
    /\ HandleFile(file)
    /\ UNCHANGED <<formatVars, loaded, csvFileValue, statsHidden, rowCount, colCount,
                   previewContent, queryInputDisabled, queryBtnDisabled,
                   clearChatDisabled, fileInfo, chatVars, panelVars, logVars>>

\* csvFile 'change' listener; the browser has set the input's value
Change(file) ==
    /\ loaded
    /\ csvFileValue' = file.name
    /\ HandleFile(file)
    /\ UNCHANGED <<formatVars, loaded, statsHidden, rowCount, colCount,
                   previewContent, queryInputDisabled, queryBtnDisabled,
                   clearChatDisabled, fileInfo, chatVars, panelVars, logVars>>

\* handleUploadSuccess that does not remove the badge already in the drop zone
HandleUploadSuccessKeepsBadge(data, fileName) ==
    /\ statsHidden' = FALSE
    /\ rowCount' = data.rows
    /\ colCount' = data.columns
    /\ previewContent' = data.preview
    /\ queryInputDisabled' = FALSE
    /\ queryBtnDisabled' = FALSE
    /\ clearChatDisabled' = FALSE
    /\ fileInfo' = Append(fileInfo, fileName)
    /\ ShowNotification("File uploaded successfully!", "success")

\* handleUploadSuccess that leaves the clear-chat button disabled
HandleUploadSuccessNoClearChat(data, fileName) ==
    /\ statsHidden' = FALSE
    /\ rowCount' = data.rows
    /\ colCount' = data.columns
    /\ previewContent' = data.preview
    /\ queryInputDisabled' = FALSE
    /\ queryBtnDisabled' = FALSE
    /\ UNCHANGED clearChatDisabled
    /\ fileInfo' = Append(IF fileInfo # <<>> THEN Tail(fileInfo) ELSE fileInfo, fileName)
    /\ ShowNotification("File uploaded successfully!", "success")

\* handleUploadSuccess
HandleUploadSuccess(data, fileName) ==
    /\ statsHidden' = FALSE
    /\ rowCount' = data.rows
    /\ colCount' = data.columns
    /\ previewContent' = data.preview
    /\ queryInputDisabled' = FALSE
    /\ queryBtnDisabled' = FALSE
    /\ clearChatDisabled' = FALSE
    /\ fileInfo' = Append(IF fileInfo # <<>> THEN Tail(fileInfo) ELSE fileInfo, fileName)
    /\ ShowNotification("File uploaded successfully!", "success")

UploadFrame ==
    UNCHANGED <<statsHidden, rowCount, colCount, previewContent, queryInputDisabled,
                queryBtnDisabled, clearChatDisabled, fileInfo>>

\* the .then of handleFile without the data.error test
UploadThenNoErrorTest(data, fileName) ==
    /\ spinners' = HideLoadingSpinner(spinners)
    /\ HandleUploadSuccess(data, fileName)

\* .then(data => ...) of handleFile, and the .catch it throws into
UploadThen(data, fileName) ==
    IF data.error # ""
    THEN /\ spinners' = HideLoadingSpinner(HideLoadingSpinner(spinners))
         /\ ShowNotification(data.error, "error")
         /\ UploadFrame
    ELSE /\ spinners' = HideLoadingSpinner(spinners)
         /\ HandleUploadSuccess(data, fileName)

\* the .catch of handleFile without hideLoadingSpinner
UploadCatchKeepsSpinner(message) ==
    /\ spinners' = spinners
    /\ ShowNotification(message, "error")
    /\ UploadFrame

\* .catch(error => ...) of handleFile, reached from fetch or response.json()
UploadCatch(message) ==
    /\ spinners' = HideLoadingSpinner(spinners)
    /\ ShowNotification(message, "error")
    /\ UploadFrame

\* the i-th outstanding /upload request settles with a parsed body
UploadResponse(i, data) ==
    /\ loaded
    /\ i \in DOMAIN uploads
    /\ uploads' = RemoveAt(uploads, i)
    /\ UploadThen(data, uploads[i])
    /\ UNCHANGED <<formatVars, loaded, currentFile, csvFileValue, chatVars, panelVars, logVars>>

\* the i-th outstanding /upload request fails in transport or in response.json()
UploadFailure(i, kind) ==
    /\ loaded
    /\ i \in DOMAIN uploads
    /\ uploads' = RemoveAt(uploads, i)
    /\ UploadCatch(FailureMessage(kind))
    /\ UNCHANGED <<formatVars, loaded, currentFile, csvFileValue, chatVars, panelVars, logVars>>

\* deleteFile that leaves the transcript alone
DeleteFileKeepsChat ==
    /\ loaded
    /\ fileInfo # <<>>
    /\ statsHidden' = TRUE
    /\ queryInputDisabled' = TRUE
    /\ queryBtnDisabled' = TRUE
    /\ clearChatDisabled' = TRUE
    /\ csvFileValue' = <<>>
    /\ currentFile' = NoFile
    /\ fileInfo' = Tail(fileInfo)
    /\ ShowNotification("File deleted successfully", "success")
    /\ UNCHANGED <<formatVars, loaded, uploads, spinners, rowCount, colCount, previewContent,
                   chatVars, panelVars, logVars>>

\* deleteFile, the click listener of the badge's .delete-file button
DeleteFile ==
    /\ loaded
    /\ fileInfo # <<>>
    /\ statsHidden' = TRUE
    /\ queryInputDisabled' = TRUE
    /\ queryBtnDisabled' = TRUE
    /\ clearChatDisabled' = TRUE
    /\ csvFileValue' = <<>>
    /\ currentFile' = NoFile
    /\ fileInfo' = Tail(fileInfo)
    /\ chatMessages' = <<WelcomeMessage>>
    /\ ShowNotification("File deleted successfully", "success")
    /\ UNCHANGED <<formatVars, loaded, uploads, spinners, rowCount, colCount, previewContent,
                   queryInputValue, queries, nextSeq, panelVars, logVars>>

\* ------------------------------------------------------------ chat
\* bodies the server sends for /query
QueryDocs == { [error |-> "", response |-> "The **average** is 5"],
               [error |-> "No data loaded", response |-> ""] }

\* md.render: the reply as markup
MdRender(content) == <<"<p>", content, "</p>">>

UserMessage(query, n) == [role |-> "user", content |-> query, seq |-> n]
AssistantMessage(content, n) == [role |-> "assistant", content |-> MdRender(content), seq |-> n]
TypingIndicator(n) == [role |-> "typing", content |-> <<>>, seq |-> n]

RECURSIVE Without(_, _)
\* element.remove(): the transcript without that element
Without(s, e) ==
    IF s = <<>> THEN <<>>
    ELSE IF Head(s) = e THEN Tail(s)
    ELSE <<Head(s)>> \o Without(Tail(s), e)

\* the user edits the query box
TypeQuery(text) ==
    /\ loaded
    /\ ~queryInputDisabled
    /\ text # queryInputValue
    /\ queryInputValue' = text
    /\ UNCHANGED <<formatVars, loaded, uploadVars, notifications, chatMessages, queries, nextSeq,
                   panelVars, logVars>>

\* sendQuery that tests and sends the text as typed, without trim()
SendQueryUntrimmed ==
    LET query == queryInputValue IN
    IF query = <<>>
    THEN UNCHANGED <<queryInputValue, chatMessages, queries, nextSeq>>
    ELSE /\ nextSeq < MaxQueries
         /\ chatMessages' = chatMessages \o
                <<UserMessage(query, nextSeq + 1), TypingIndicator(nextSeq + 1)>>
         /\ queryInputValue' = <<>>
         /\ queries' = queries \cup {[seq |-> nextSeq + 1, query |-> query]}
         /\ nextSeq' = nextSeq + 1

\* sendQuery
SendQuery ==
    LET query == Trim(queryInputValue) IN
    IF query = <<>>
    THEN UNCHANGED <<queryInputValue, chatMessages, queries, nextSeq>>
    ELSE /\ nextSeq < MaxQueries
         /\ chatMessages' = chatMessages \o
                <<UserMessage(query, nextSeq + 1), TypingIndicator(nextSeq + 1)>>
         /\ queryInputValue' = <<>>
         /\ queries' = queries \cup {[seq |-> nextSeq + 1, query |-> query]}
         /\ nextSeq' = nextSeq + 1

\* queryBtn 'click' listener
QueryBtnClick ==
    /\ loaded
    /\ ~queryBtnDisabled
    /\ SendQuery
    /\ UNCHANGED <<formatVars, loaded, uploadVars, notifications, panelVars, logVars>>

\* queryInput 'keypress' listener, key Enter
QueryInputEnter ==
    /\ loaded
    /\ ~queryInputDisabled
    /\ SendQuery
    /\ UNCHANGED <<formatVars, loaded, uploadVars, notifications, panelVars, logVars>>

\* the .then of sendQuery that adds the reply before it tests data.error
QueryThenReplyFirst(data, q) ==
    /\ chatMessages' = Append(Without(chatMessages, TypingIndicator(q.seq)),
                              AssistantMessage(data.response, q.seq))
    /\ IF data.error # ""
       THEN ShowNotification(data.error, "error")
       ELSE UNCHANGED notifications

\* .then(data => ...) of sendQuery, and the .catch it throws into
QueryThen(data, q) ==
    IF data.error # ""
    THEN /\ chatMessages' = Without(chatMessages, TypingIndicator(q.seq))
         /\ ShowNotification(data.error, "error")
    ELSE /\ chatMessages' = Append(Without(chatMessages, TypingIndicator(q.seq)),
                                   AssistantMessage(data.response, q.seq))
         /\ UNCHANGED notifications

\* .catch(error => ...) of sendQuery, reached from fetch or response.json()
QueryCatch(message, q) ==
    /\ chatMessages' = Without(chatMessages, TypingIndicator(q.seq))
    /\ ShowNotification(message, "error")

\* an outstanding /query request settles with a parsed body
QueryResponse(q, data) ==
    /\ loaded
    /\ q \in queries
    /\ queries' = queries \ {q}
    /\ QueryThen(data, q)
    /\ UNCHANGED <<formatVars, loaded, uploadVars, queryInputValue, nextSeq, panelVars, logVars>>

\* an outstanding /query request fails in transport or in response.json()
QueryFailure(q, kind) ==
    /\ loaded
    /\ q \in queries
    /\ queries' = queries \ {q}
    /\ QueryCatch(FailureMessage(kind), q)
    /\ UNCHANGED <<formatVars, loaded, uploadVars, queryInputValue, nextSeq, panelVars, logVars>>

\* the clear-chat listener that spares the welcome block
ClearChatKeepsWelcome ==
    /\ loaded
    /\ ~clearChatDisabled
    /\ chatMessages' = SelectSeq(chatMessages, LAMBDA m : m.role = "welcome")
    /\ UNCHANGED <<formatVars, loaded, uploadVars, notifications, queryInputValue, queries,
                   nextSeq, panelVars, logVars>>

\* clearChat 'click' listener
ClearChat ==
    /\ loaded
    /\ ~clearChatDisabled
    /\ chatMessages' = <<>>
    /\ UNCHANGED <<formatVars, loaded, uploadVars, notifications, queryInputValue, queries, nextSeq,
                   panelVars, logVars>>

\* ------------------------------------------------------------ debug panel
\* debug.formatBytes
k == 1024
sizes == <<"Bytes", "KB", "MB", "GB">>

\* Math.floor(Math.log(bytes) / Math.log(k)) for bytes >= 1: one less than the
\* number of base-k digits
FloorLog(bytes) == Len(bytes) - 1

RECURSIVE Scaled(_, _)
\* Math.floor(c * f) for the base-k fraction f = 0.d1 d2 ...
Scaled(c, digits) ==
    IF digits = <<>> THEN 0
    ELSE (c * Head(digits) + Scaled(c, Tail(digits))) \div k

\* (bytes / Math.pow(k, i)).toFixed(2), in hundredths: the nearest, the larger on a tie
ToFixed2(bytes) == (200 * Head(bytes) + Scaled(200, Tail(bytes)) + 1) \div 2

DigitChar(d) == <<"0", "1", "2", "3", "4", "5", "6", "7", "8", "9">>[d + 1]

RECURSIVE Digits(_)
Digits(n) == IF n < 10 THEN <<DigitChar(n)>> ELSE Digits(n \div 10) \o <<DigitChar(n % 10)>>

\* parseFloat(text) + '': the decimal text without trailing zeros
ParseFloat(hundredths) ==
    LET whole == hundredths \div 100
        frac == hundredths % 100
    IN Digits(whole) \o
       (IF frac = 0 THEN <<>>
        ELSE IF frac % 10 = 0 THEN <<".", DigitChar(frac \div 10)>>
        ELSE <<".", DigitChar(frac \div 10), DigitChar(frac % 10)>>)

\* debug.formatBytes; sizes[i] past the end of the array reads undefined
FormatBytes(bytes) ==
    IF bytes = ZeroBytes THEN [number |-> <<"0">>, unit |-> "Bytes"]
    ELSE LET i == FloorLog(bytes)
         IN [number |-> ParseFloat(ToFixed2(bytes)),
             unit |-> IF i + 1 \in DOMAIN sizes THEN sizes[i + 1] ELSE "undefined"]

\* bodies the server sends for /debug/status
StatusDocs == { [flask_env |-> "", enabled |-> TRUE, df_info |-> FALSE, used |-> <<1, 512>>,
                 python_version |-> "3.11.4", chat_history |-> 0],
                [flask_env |-> "production", enabled |-> FALSE, df_info |-> TRUE, used |-> ZeroBytes,
                 python_version |-> "3.11.4", chat_history |-> 2] }

\* debug.formatSystemStatus
FormatSystemStatus(data) ==
    [environment |-> IF data.flask_env # "" THEN data.flask_env ELSE "development",
     debugMode |-> IF data.enabled THEN "Enabled" ELSE "Disabled",
     dataFrame |-> data.df_info,
     error |-> ""]

\* debug.formatPerformanceMetrics
FormatPerformanceMetrics(data) ==
    [memoryUsage |-> FormatBytes(data.used),
     pythonVersion |-> data.python_version,
     chatMessages |-> data.chat_history]

\* debug.updateSystemStatus: the fetch; origin is the call site, shown whether the
\* panel has class show at the moment of the call
UpdateSystemStatus(origin, shown) ==
    /\ Len(statusRequests) < MaxStatus
    /\ statusRequests' = Append(statusRequests, [origin |-> origin, shown |-> shown])

\* the toggle listener that fetches on every click, also on the closing one
DebugToggleAlwaysFetches ==
    /\ loaded
    /\ debugPanelShow' = ~debugPanelShow
    /\ UpdateSystemStatus("toggle", ~debugPanelShow)
    /\ UNCHANGED <<formatVars, loaded, uploadVars, notifications, chatVars, systemStatus,
                   performanceMetrics, logVars>>

\* debugToggle 'click' listener
DebugToggle ==
    /\ loaded
    /\ debugPanelShow' = ~debugPanelShow
    /\ IF ~debugPanelShow
       THEN UpdateSystemStatus("toggle", ~debugPanelShow)
       ELSE UNCHANGED statusRequests
    /\ UNCHANGED <<formatVars, loaded, uploadVars, notifications, chatVars, systemStatus,
                   performanceMetrics, logVars>>

\* the interval callback without the visibility test
StatusTickUnguarded ==
    /\ loaded
    /\ UpdateSystemStatus("tick", debugPanelShow)
    /\ UNCHANGED <<formatVars, loaded, uploadVars, notifications, chatVars, debugPanelShow,
                   systemStatus, performanceMetrics, logVars>>

\* the 5000 ms interval callback of setupDebugPanel
StatusTick ==
    /\ loaded
    /\ IF debugPanelShow
       THEN UpdateSystemStatus("tick", debugPanelShow)
       ELSE UNCHANGED statusRequests
    /\ UNCHANGED <<formatVars, loaded, uploadVars, notifications, chatVars, debugPanelShow,
                   systemStatus, performanceMetrics, logVars>>

\* .then(data => ...) of updateSystemStatus
StatusResponse(i, data) ==
    /\ loaded
    /\ i \in DOMAIN statusRequests
    /\ statusRequests' = RemoveAt(statusRequests, i)
    /\ systemStatus' = FormatSystemStatus(data)
    /\ performanceMetrics' = FormatPerformanceMetrics(data)
    /\ UNCHANGED <<formatVars, loaded, uploadVars, notifications, chatVars, debugPanelShow, logVars>>

\* .catch(error => ...) of updateSystemStatus: !response.ok, a rejected fetch,
\* a body that is not JSON
StatusFailure(i, kind) ==
    /\ loaded
    /\ i \in DOMAIN statusRequests
    /\ statusRequests' = RemoveAt(statusRequests, i)
    /\ systemStatus' = [environment |-> "", debugMode |-> "", dataFrame |-> FALSE,
                        error |-> IF kind = "http" THEN "Debug status request failed"
                                  ELSE FailureMessage(kind)]
    /\ UNCHANGED <<formatVars, loaded, uploadVars, notifications, chatVars, debugPanelShow,
                   performanceMetrics, logVars>>

\* the DOMContentLoaded listener: debug.init() and the wiring of the page
DOMContentLoaded ==
    /\ ~loaded
    /\ loaded' = TRUE
    /\ UpdateSystemStatus("init", debugPanelShow)
    /\ currentFile' = NoFile
    /\ UNCHANGED <<formatVars, csvFileValue, uploads, spinners, statsHidden, rowCount,
                   colCount, previewContent, queryInputDisabled, queryBtnDisabled,
                   clearChatDisabled, fileInfo, notifications, chatVars,
                   debugPanelShow, systemStatus, performanceMetrics, logVars>>

\* ------------------------------------------------------------ rolling log
enabled == TRUE

ToUpperCase(type) ==
    CASE type = "info" -> "INFO"
      [] type = "warn" -> "WARN"
      [] type = "error" -> "ERROR"

\* debug.formatLogEntries
FormatLogEntries(queue) ==
    [i \in DOMAIN queue |-> [time |-> queue[i].timestamp,
                             type |-> ToUpperCase(queue[i].type),
                             message |-> queue[i].message]]

\* addLogEntry that evicts as soon as the queue reaches maxLogEntries
UnshiftEvictsEarly(queue, entry) ==
    LET q == <<entry>> \o queue
    IN IF Len(q) >= maxLogEntries THEN SubSeq(q, 1, Len(q) - 1) ELSE q

\* debug.addLogEntry: the queue after unshift and the trim to maxLogEntries
Unshift(queue, entry) ==
    LET q == <<entry>> \o queue
    IN IF Len(q) > maxLogEntries THEN SubSeq(q, 1, Len(q) - 1) ELSE q

AddLogEntry(entry) ==
    /\ logClock < MaxInsertions
    /\ logClock' = logClock + 1
    /\ logQueue' = Unshift(logQueue, entry)
    /\ recentLogs' = FormatLogEntries(logQueue')

LogEntry(type, message) == [type |-> type, timestamp |-> logClock + 1, message |-> message]

\* the model follows at most one warn or error entry through the queue at a time
OnlyInfo == \A i \in DOMAIN logQueue : logQueue[i].type = "info"

\* debug.log, as the 10000 ms memory sampler calls it
DebugLog ==
    /\ IF enabled
       THEN AddLogEntry(LogEntry("info", "Memory Usage"))
       ELSE UNCHANGED logVars
    /\ UNCHANGED <<formatVars, loaded, uploadVars, notifications, chatVars, panelVars>>

\* debug.error, as the global error and unhandledrejection listeners call it
DebugError ==
    /\ OnlyInfo
    /\ AddLogEntry(LogEntry("error", "Global error:"))
    /\ UNCHANGED <<formatVars, loaded, uploadVars, notifications, chatVars, panelVars>>

\* debug.warn
DebugWarn ==
    /\ OnlyInfo
    /\ AddLogEntry(LogEntry("warn", "warning"))
    /\ UNCHANGED <<formatVars, loaded, uploadVars, notifications, chatVars, panelVars>>

\* ------------------------------------------------------------ specifications
\* the upload closure: file selection, /upload, deletion
Next ==
    \/ DOMContentLoaded
    \/ \E file \in Files : Drop(file)
    \/ \E file \in Files : Change(file)
    \/ \E i \in 1..MaxUploads, data \in UploadDocs : UploadResponse(i, data)
    \/ \E i \in 1..MaxUploads, kind \in {Network, Parse} : UploadFailure(i, kind)
    \/ DeleteFile
    \/ NotificationFadeOut
    \/ NotificationRemove

Spec == Init /\ [][Next]_vars

\* the chat closure, with the uploads and deletions that enable and reset it
ChatFile == File(<<"a", ".", "c", "s", "v">>)
ChatDocs == { d \in UploadDocs : d.error = "" }

NextChat ==
    \/ DOMContentLoaded
    \/ Change(ChatFile)
    \/ \E i \in 1..MaxUploads, data \in ChatDocs : UploadResponse(i, data)
    \/ DeleteFile
    \/ \E text \in QueryTexts : TypeQuery(text)
    \/ QueryBtnClick
    \/ QueryInputEnter
    \/ \E q \in queries, data \in QueryDocs : QueryResponse(q, data)
    \/ \E q \in queries, kind \in {Network, Parse} : QueryFailure(q, kind)
    \/ ClearChat
    \/ NotificationFadeOut
    \/ NotificationRemove

SpecChat == Init /\ [][NextChat]_vars

\* the debug panel and its status polling
NextDebug ==
    \/ DOMContentLoaded
    \/ DebugToggle
    \/ StatusTick
    \/ \E i \in 1..MaxStatus, data \in StatusDocs : StatusResponse(i, data)
    \/ \E i \in 1..MaxStatus, kind \in {"http", Network, Parse} : StatusFailure(i, kind)

SpecDebug == Init /\ [][NextDebug]_vars

\* the rolling log
NextLog ==
    \/ DebugLog
    \/ DebugError
    \/ DebugWarn

SpecLog == Init /\ [][NextLog]_vars

\* debug.formatBytes on its own
ByteDigits == {0, 1, 128, 512, 1023}
ByteInputs ==
    {ZeroBytes} \cup
    { b \in UNION { [1..n -> ByteDigits] : n \in 1..MaxByteDigits } : b[1] # 0 }

InitBytes ==
    /\ PageInit
    /\ formatArg \in ByteInputs
    /\ formatResult = NotCalled

\* a call debug.formatBytes(formatArg), as formatPerformanceMetrics and the memory
\* sampler make it
FormatBytesCall ==
    /\ formatResult = NotCalled
    /\ formatResult' = FormatBytes(formatArg)
    /\ UNCHANGED <<formatArg, loaded, uploadVars, notifications, chatVars, panelVars, logVars>>

NextBytes == FormatBytesCall

SpecBytes == InitBytes /\ [][NextBytes]_vars

\* ------------------------------------------------------------ claims
Accepted(file) == file.present /\ EndsWith(file.name, CsvSuffix)

Shows(message) == \E i \in DOMAIN notifications : notifications[i].message = message

ChatControlsEnabled == ~queryInputDisabled /\ ~queryBtnDisabled /\ ~clearChatDisabled
ChatControlsDisabled == queryInputDisabled /\ queryBtnDisabled /\ clearChatDisabled

\* an /upload response without an error field is handled
UploadSucceeds == \E i \in DOMAIN uploads, data \in UploadDocs : data.error = "" /\ UploadResponse(i, data)

\* an /upload request fails: error field, rejected fetch, body that is not JSON
UploadFails ==
    \/ \E i \in DOMAIN uploads, data \in UploadDocs : data.error # "" /\ UploadResponse(i, data)
    \/ \E i \in DOMAIN uploads, kind \in {Network, Parse} : UploadFailure(i, kind)

\* C1: a handleFile call with no file, or with a file whose name does not end in
\* ".csv", issues no /upload request, shows "Please select a CSV file", and leaves
\* the spinner, currentFile, stats, chat controls and badge as they were.
C1_RejectedFile ==
    [][\A file \in Files :
         (~Accepted(file) /\ (Drop(file) \/ Change(file))) =>
            /\ uploads' = uploads
            /\ notifications' = Append(notifications,
                   [message |-> "Please select a CSV file", className |-> "alert-danger",
                    animation |-> "fadeIn"])
            /\ UNCHANGED <<spinners, currentFile, statsHidden, rowCount, colCount,
                           previewContent, queryInputDisabled, queryBtnDisabled,
                           clearChatDisabled, fileInfo>>]_vars

\* C1 witness: a file that is not a CSV was chosen in the dialog and only the toast shows
C1_Witness ==
    /\ csvFileValue = <<"a", ".", "t", "x", "t">>
    /\ Shows("Please select a CSV file")
    /\ uploads = <<>> /\ spinners = 0 /\ currentFile = NoFile

\* C2 as stated: every successful upload takes the three chat controls from disabled
\* to enabled, and deleteFile returns all three to disabled.
C2_Original ==
    [][/\ UploadSucceeds => (ChatControlsDisabled /\ ChatControlsEnabled')
       /\ DeleteFile => ChatControlsDisabled']_vars

\* C2 amended: after every successful upload the three chat controls are enabled
\* (they change only if they were disabled before), and deleteFile returns all
\* three to disabled.
C2_Amended ==
    [][/\ UploadSucceeds => ChatControlsEnabled'
       /\ DeleteFile => ChatControlsDisabled']_vars

\* C2 witness: a successful upload has just enabled the chat controls
C2_Witness ==
    /\ ChatControlsEnabled
    /\ Shows("File uploaded successfully!")
    /\ fileInfo # <<>>

\* C5: whenever no /upload request is outstanding, no loading spinner is present.
C5_SpinnerRemoved == uploads = <<>> => spinners = 0

\* C5 witness: an upload failed in transport and nothing is outstanding
C5_Witness ==
    /\ uploads = <<>> /\ spinners = 0
    /\ currentFile # NoFile
    /\ Shows(FailureMessage(Network))

\* C10: a failed upload shows exactly one error notification, issues no further
\* /upload request, and leaves the stats panel, the counts, the preview, the chat
\* controls and the badge as they were.
C10_UploadFailure ==
    [][UploadFails =>
         /\ Len(notifications') = Len(notifications) + 1
         /\ notifications'[Len(notifications')].className = "alert-danger"
         /\ SubSeq(notifications', 1, Len(notifications)) = notifications
         /\ \E i \in DOMAIN uploads : uploads' = RemoveAt(uploads, i)
         /\ UNCHANGED <<statsHidden, rowCount, colCount, previewContent,
                        queryInputDisabled, queryBtnDisabled, clearChatDisabled,
                        fileInfo>>]_vars

\* C10 witness: the server answered with an error field; the page still shows no file
C10_Witness ==
    /\ Shows("Invalid CSV")
    /\ uploads = <<>>
    /\ statsHidden /\ ChatControlsDisabled /\ fileInfo = <<>>
    /\ rowCount = PageDefault

\* the text is blank: empty, or nothing but whitespace
Blank(text) == \A i \in DOMAIN text : text[i] \in Whitespace

\* t is text without its leading and trailing whitespace
IsTrimOf(t, text) ==
    /\ t # <<>> /\ Head(t) \notin Whitespace /\ t[Len(t)] \notin Whitespace
    /\ \E a \in 0..Len(text) :
        /\ a + Len(t) <= Len(text)
        /\ SubSeq(text, a + 1, a + Len(t)) = t
        /\ Blank(SubSeq(text, 1, a))
        /\ Blank(SubSeq(text, a + Len(t) + 1, Len(text)))

Sends == QueryBtnClick \/ QueryInputEnter

Count(s, role) == Cardinality({ i \in DOMAIN s : s[i].role = role })

HasTyping(s, n) == \E i \in DOMAIN s : s[i].role = "typing" /\ s[i].seq = n

OneMoreToast(type) ==
    /\ Len(notifications') = Len(notifications) + 1
    /\ SubSeq(notifications', 1, Len(notifications)) = notifications
    /\ notifications'[Len(notifications')].className = type

\* C3: a send (click or Enter) with blank input appends nothing to the transcript
\* and issues no /query request.
C3_BlankSend ==
    [][(Sends /\ Blank(queryInputValue)) => UNCHANGED <<chatMessages, queries>>]_vars

\* C3 witness: the send controls are enabled and the box holds only whitespace
C3_Witness ==
    /\ ~queryBtnDisabled /\ ~queryInputDisabled
    /\ queryInputValue # <<>> /\ Blank(queryInputValue)
    /\ Count(chatMessages, "user") = 1
    /\ queries = {}

\* C6: a send with text appends the user message and then the typing placeholder
\* and issues the request; when the request settles its placeholder is gone, and an
\* assistant message is appended exactly when the body has no error field,
\* otherwise one error toast is shown and no assistant message is added.
C6_SendAndSettle ==
    [][/\ (Sends /\ ~Blank(queryInputValue)) =>
            \E n \in 1..MaxQueries :
                /\ Len(chatMessages') = Len(chatMessages) + 2
                /\ SubSeq(chatMessages', 1, Len(chatMessages)) = chatMessages
                /\ chatMessages'[Len(chatMessages) + 1].role = "user"
                /\ chatMessages'[Len(chatMessages) + 1].seq = n
                /\ IsTrimOf(chatMessages'[Len(chatMessages) + 1].content, queryInputValue)
                /\ chatMessages'[Len(chatMessages) + 2].role = "typing"
                /\ chatMessages'[Len(chatMessages) + 2].seq = n
                /\ \A q \in queries : q.seq # n
                /\ \E q \in queries' \ queries : q.seq = n /\ queries' = queries \cup {q}
       /\ \A q \in queries, data \in QueryDocs :
            QueryResponse(q, data) =>
                /\ ~HasTyping(chatMessages', q.seq)
                /\ IF data.error = ""
                   THEN /\ Count(chatMessages', "assistant") = Count(chatMessages, "assistant") + 1
                        /\ chatMessages'[Len(chatMessages')].role = "assistant"
                        /\ chatMessages'[Len(chatMessages')].seq = q.seq
                        /\ notifications' = notifications
                   ELSE /\ Count(chatMessages', "assistant") = Count(chatMessages, "assistant")
                        /\ OneMoreToast("alert-danger")
       /\ \A q \in queries, kind \in {Network, Parse} :
            QueryFailure(q, kind) =>
                /\ ~HasTyping(chatMessages', q.seq)
                /\ Count(chatMessages', "assistant") = Count(chatMessages, "assistant")
                /\ OneMoreToast("alert-danger")]_vars

\* C6 witness: a query was answered with an error field: its user message is in the
\* transcript, its placeholder is gone, no assistant message was added
C6_Witness ==
    /\ Shows("No data loaded")
    /\ queries = {}
    /\ Count(chatMessages, "user") = 1
    /\ Count(chatMessages, "typing") = 0
    /\ Count(chatMessages, "assistant") = 0

\* C9 as stated: deleteFile hides the stats panel, clears the counts and the preview,
\* disables the chat controls, removes the badge, clears the file input and
\* currentFile, and leaves the transcript holding exactly the welcome message.
C9_Original ==
    [][DeleteFile =>
         /\ statsHidden'
         /\ rowCount' = PageDefault /\ colCount' = PageDefault
         /\ previewContent' = PageDefault
         /\ ChatControlsDisabled'
         /\ fileInfo' = <<>>
         /\ csvFileValue' = <<>> /\ currentFile' = NoFile
         /\ chatMessages' = <<WelcomeMessage>>]_vars

\* C9 amended: as stated, except that the counts and the preview are not cleared:
\* they keep what the last upload wrote, inside the hidden stats panel.
C9_Amended ==
    [][DeleteFile =>
         /\ statsHidden'
         /\ UNCHANGED <<rowCount, colCount, previewContent>>
         /\ ChatControlsDisabled'
         /\ fileInfo' = <<>>
         /\ csvFileValue' = <<>> /\ currentFile' = NoFile
         /\ chatMessages' = <<WelcomeMessage>>]_vars

\* C9 witness: a file was uploaded from the dialog, a query was sent, and the file
\* was deleted: the panel is hidden with the old counts still in it
C9_Witness ==
    /\ Shows("File deleted successfully")
    /\ statsHidden /\ ChatControlsDisabled /\ fileInfo = <<>>
    /\ csvFileValue = <<>> /\ currentFile = NoFile
    /\ nextSeq > 0 /\ chatMessages = <<WelcomeMessage>>
    /\ rowCount = "10" /\ colCount = "3"

\* C4: the log queue never holds more than 100 entries; after N insertions it holds
\* the min(N, 100) most recently inserted entries, newest first.
C4_LogQueue ==
    /\ Len(logQueue) <= 100
    /\ Len(logQueue) = (IF logClock > 100 THEN 100 ELSE logClock)
    /\ \A i \in DOMAIN logQueue : logQueue[i].timestamp = logClock - i + 1
    /\ Len(recentLogs) = Len(logQueue)
    /\ \A i \in DOMAIN recentLogs : recentLogs[i].time = logQueue[i].timestamp

\* C4 witness: more than 100 entries were inserted, the oldest ones are gone and an
\* error entry is on its way through the queue
C4_Witness ==
    /\ logClock = 102
    /\ Len(logQueue) = 100
    /\ logQueue[1].timestamp = 102 /\ logQueue[100].timestamp = 3
    /\ \E i \in DOMAIN logQueue : logQueue[i].type = "error"

\* a request was issued by this step: the queue of outstanding requests grew
StatusIssued == Len(statusRequests') > Len(statusRequests)

\* C7: the step that opens the debug panel issues exactly one /debug/status request,
\* and no step that starts and ends with the panel closed issues one.
C7_OpenFetchesClosedDoesNot ==
    [][/\ (~debugPanelShow /\ debugPanelShow') =>
            /\ Len(statusRequests') = Len(statusRequests) + 1
            /\ SubSeq(statusRequests', 1, Len(statusRequests)) = statusRequests
       /\ (loaded /\ ~debugPanelShow /\ ~debugPanelShow') => ~StatusIssued]_vars

\* C7 witness: the panel was opened and closed again while the request of the
\* opening is still outstanding, and nothing else was issued since
C7_Witness ==
    /\ loaded /\ ~debugPanelShow
    /\ Len(statusRequests) = 1
    /\ statusRequests[1].origin = "toggle"

\* C8 as stated: every /debug/status request is issued while the panel is visible.
C8_Original == \A i \in DOMAIN statusRequests : statusRequests[i].shown

\* C8 amended: every /debug/status request other than the one debug.init issues on
\* page load is issued while the panel is visible; debug.init issues exactly one,
\* whether or not the panel is visible.
C8_Amended ==
    /\ \A i \in DOMAIN statusRequests :
        statusRequests[i].origin # "init" => statusRequests[i].shown
    /\ Cardinality({ i \in DOMAIN statusRequests : statusRequests[i].origin = "init" }) <= 1
    /\ (~loaded) => statusRequests = <<>>

\* C8 witness: the page-load request, issued with the panel closed, is outstanding
\* next to a request of the poll, issued with the panel open
C8_Witness ==
    /\ Len(statusRequests) = 2
    /\ statusRequests[1].origin = "init" /\ ~statusRequests[1].shown
    /\ statusRequests[2].origin = "tick" /\ statusRequests[2].shown

\* C11: a click on clear-chat leaves the transcript empty, whatever it held, and
\* changes nothing else: not the file state, the chat controls or the outstanding
\* requests.
C11_ClearChat ==
    [][ClearChat =>
         /\ chatMessages' = <<>>
         /\ UNCHANGED <<currentFile, csvFileValue, statsHidden, rowCount, colCount,
                        previewContent, fileInfo, queryInputDisabled, queryBtnDisabled,
                        clearChatDisabled, uploads, queries, notifications>>]_vars

\* C11 witness: the chat was cleared while a query was outstanding: the welcome
\* block, the user message and the placeholder are gone, the request is not
C11_Witness ==
    /\ chatMessages = <<>>
    /\ queries # {}
    /\ ChatControlsEnabled /\ fileInfo # <<>>

\* C12: formatBytes(0) is "0 Bytes"; for b > 0 the unit is Bytes, KB, MB or GB, the
\* one of index floor(log1024 b); formatBytes(1024) = "1 KB",
\* formatBytes(1536) = "1.5 KB", formatBytes(1048576) = "1 MB".
C12_FormatBytes ==
    formatResult # NotCalled =>
        /\ formatArg = ZeroBytes => formatResult = [number |-> <<"0">>, unit |-> "Bytes"]
        /\ formatArg # ZeroBytes =>
            /\ formatResult.unit \in {"Bytes", "KB", "MB", "GB"}
            /\ formatResult.unit = <<"Bytes", "KB", "MB", "GB">>[Len(formatArg)]
        /\ formatArg = <<1, 0>> => formatResult = [number |-> <<"1">>, unit |-> "KB"]
        /\ formatArg = <<1, 512>> => formatResult = [number |-> <<"1", ".", "5">>, unit |-> "KB"]
        /\ formatArg = <<1, 0, 0>> => formatResult = [number |-> <<"1">>, unit |-> "MB"]

\* an /upload request settles
UploadSettles ==
    \/ \E i \in DOMAIN uploads, data \in UploadDocs : UploadResponse(i, data)
    \/ \E i \in DOMAIN uploads, kind \in {Network, Parse} : UploadFailure(i, kind)

\* a /query request settles
QuerySettles ==
    \/ \E q \in queries, data \in QueryDocs : QueryResponse(q, data)
    \/ \E q \in queries, kind \in {Network, Parse} : QueryFailure(q, kind)

\* C13: a CSV file chosen, or a query sent, while earlier requests are outstanding
\* issues its own request at once, and a request stops being outstanding only by
\* its response being handled: nothing cancels it.
C13_NoInFlightGuard ==
    [][/\ Change(ChatFile) => uploads' = Append(uploads, ChatFile.name)
       /\ (Sends /\ ~Blank(queryInputValue)) =>
            \E q \in queries' \ queries : queries' = queries \cup {q}
       /\ (\E i \in DOMAIN uploads : uploads' = RemoveAt(uploads, i)) => UploadSettles
       /\ Len(uploads') >= Len(uploads) - 1
       /\ (queries \ queries' # {}) =>
            (QuerySettles /\ Cardinality(queries \ queries') = 1)]_vars

\* C13 witness: two /upload requests and two /query requests are outstanding at once
C13_Witness ==
    /\ Len(uploads) >= 2
    /\ Cardinality(queries) >= 2

\* C14: whenever an /upload request is outstanding, a loading spinner is present.
C14_SpinnerWhileInFlight == uploads # <<>> => spinners > 0

\* C15: the stats panel is visible exactly when the chat controls are enabled,
\* exactly when a file badge is present, and there is never more than one badge.
C15_LoadedIndicatorsAgree ==
    /\ (~statsHidden) <=> ChatControlsEnabled
    /\ statsHidden <=> ChatControlsDisabled
    /\ (~statsHidden) <=> (fileInfo # <<>>)
    /\ Len(fileInfo) <= 1

\* C15 witness: a second upload succeeded over a loaded file while a third is in
\* flight: one badge, of the second file
C15_Witness ==
    /\ Len(fileInfo) = 1 /\ ~statsHidden /\ ChatControlsEnabled
    /\ uploads # <<>>
    /\ currentFile.present /\ fileInfo[1] # currentFile.name
    /\ Shows("File uploaded successfully!")

\* C16: whenever no /upload request is outstanding, currentFile is set exactly when
\* the chat controls are enabled.
C16_CurrentFileTracksLoaded ==
    uploads = <<>> => (currentFile # NoFile <=> ChatControlsEnabled)

\* C17: while the chat controls are disabled the transcript holds only the welcome
\* message.
C17_TranscriptStaysReset ==
    ChatControlsDisabled => chatMessages = <<WelcomeMessage>>

\* C18: every assistant message in the transcript comes after the user message of
\* the query it answers.
C18_ReplyFollowsQuestion ==
    \A i \in DOMAIN chatMessages :
        chatMessages[i].role = "assistant" =>
            \E j \in 1..(i - 1) :
                chatMessages[j].role = "user" /\ chatMessages[j].seq = chatMessages[i].seq

\* C19: the assistant messages stand in the transcript in the order in which their
\* queries were sent.
C19_RepliesInSendOrder ==
    \A i, j \in DOMAIN chatMessages :
        (i < j /\ chatMessages[i].role = "assistant" /\ chatMessages[j].role = "assistant")
            => chatMessages[i].seq < chatMessages[j].seq

====
